---- MODULE Spec2Model ----
(***************************************************************************)
(* Model of stream/write_buffer.go: bufferedWriter, a batching writer that *)
(* sits between producers (Write) and a Kafka writer.  One worker          *)
(* goroutine (loop) drains the channel wb.buffer into a fixed array,       *)
(* flushes it when full or when the flush ticker fires, retries failed     *)
(* publishes, and performs a final flush when close() closes the channel.  *)
(*                                                                         *)
(* Payloads are identified by the order in which Write admits them: the    *)
(* n-th admitted payload is n (every Write enqueues a pointer to its own   *)
(* copy of the slice header, so queued items are distinct objects).        *)
(* Time is discrete and counted in seconds.  The model keeps               *)
(* now - lastFlush (saturating just above the flush interval) instead of   *)
(* the two absolute times, which is all line 164 looks at.                 *)
(***************************************************************************)
EXTENDS Integers, Sequences, FiniteSets, TLC

\* ---- bounds (scaled configuration and environment limits) -------------
\* batch capacity `size` (256 in the source, line 19)
defaultBufferedWriterSize == 3
\* capacity of the channel wb.buffer (size * 5 in the source, line 20)
defaultBufferedWriterMsgQueueSize == 1
\* attempts per flush (10 in the source, line 22)
defaultWriteRetry == 2
\* number of Write calls the producers make
MaxWrites == 6
\* number of WriteMessages calls the broker fails
MaxFailures == 2

\* ---- program constants -------------------------------------------------
\* time.Second, the unit of the model's clock
Second == 1
defaultWriteRetrySleep == 1 * Second
defaultBufferedWriterFlushInterval == 1 * Second

size == defaultBufferedWriterSize
flushInterval == defaultBufferedWriterFlushInterval

VARIABLES
    queue,          \* wb.buffer: the buffered channel, oldest first
    queueClosed,    \* wb.buffer has been closed
    closeCount,     \* number of close(wb.buffer) executed
    pending,        \* payload of a Write blocked on the full channel (0: none)
    written,        \* number of payloads admitted to the channel so far
    closePc,        \* position of the caller of close()
    closeResult,    \* what close() returned
    connResult,     \* what wb.writer.Close() returned
    connClosed,     \* wb.writer.Close() has been called
    doneCh,         \* wb.doneCh has been closed
    tickPending,    \* flushTicker.C holds a tick (its capacity is 1)
    tickerStopped,  \* flushTicker.Stop() has been called
    phase,          \* time since the ticker last fired
    elapsed,        \* now - lastFlush, saturating at flushInterval + 1
    pc,             \* position of the worker goroutine
    after,          \* where the running flush() returns to
    msg,            \* the item received at line 148 (0: none)
    buffer,         \* loop's buffer array
    bufferSize,     \* loop's bufferSize
    buffer2,        \* loop's buffer2 array of kafka.Message
    icnt,           \* retry loop counter
    err,            \* err != nil
    sleepLeft,      \* remaining time of time.Sleep at line 129
    collV,          \* value captured by NewSuccessFailCounterAdd
    successCount,   \* counter kafka_write_records_success
    failureCount,   \* counter kafka_write_records_failure
    inflight,       \* messages of the WriteMessages call in progress
    attempts,       \* WriteMessages calls issued by the current flush
    sinceAttempt,   \* time since the last failed attempt returned
    calls           \* history of returned WriteMessages calls: the messages,
                    \* the result, and which call of flush() issued it

vars == <<queue, queueClosed, closeCount, pending, written, closePc,
          closeResult, connResult, connClosed, doneCh, tickPending, tickerStopped, phase,
          elapsed, pc, after, msg, buffer, bufferSize, buffer2, icnt, err,
          sleepLeft, collV, successCount, failureCount, inflight, attempts,
          sinceAttempt, calls>>

producerVars == <<queue, pending, written>>
closerVars == <<queueClosed, closeCount, closePc, closeResult, connResult,
                connClosed>>
tickerVars == <<tickPending, tickerStopped, phase>>
retryVars == <<icnt, err, sleepLeft, inflight, attempts, sinceAttempt>>
metricVars == <<successCount, failureCount>>

Min(a, b) == IF a < b THEN a ELSE b
Max(a, b) == IF a > b THEN a ELSE b

\* hashing.ComputeHash256: an uninterpreted digest of the value
ComputeHash256(v) == <<"sha256", v>>

\* kafka.Message{}
EmptyMessage == [Key |-> <<>>, Value |-> 0]

\* metrics.Prometheus.CounterAdd as used by the success/fail collector
CounterAdd(c, v) == c + v

\* float64(bufferSize) handed to NewSuccessFailCounterAdd
CollectorValueOne(n) == 1
CollectorValue(n) == n

\* bufferSize >= size
BufferFullStrict(n) == n > size
BufferFull(n) == n >= size

\* icnt < defaultWriteRetry
RetryLoopContinuesOff(i) == i <= defaultWriteRetry
RetryLoopContinuesNever(i) == i < 0
RetryLoopContinues(i) == i < defaultWriteRetry

\* time.Now().After(lastFlush.Add(flushInterval))
TimerDueBefore == elapsed < flushInterval
TimerDueAtLeast == elapsed >= flushInterval
TimerDue == elapsed > flushInterval

\* buffer2 after the loop at lines 96-102
BuildBatchReversed ==
    [i \in 1..size |->
        IF i <= bufferSize
            THEN [Key |-> ComputeHash256(buffer[bufferSize + 1 - i]),
                  Value |-> buffer[bufferSize + 1 - i]]
            ELSE buffer2[i]]

BuildBatch ==
    [i \in 1..size |->
        IF i <= bufferSize
            THEN [Key |-> ComputeHash256(buffer[i]), Value |-> buffer[i]]
            ELSE buffer2[i]]

\* bufmsg[:bufmsgsz]
BatchSliceWhole(bufmsg, bufmsgsz) == [i \in 1..size |-> bufmsg[i]]
BatchSlice(bufmsg, bufmsgsz) == [i \in 1..bufmsgsz |-> bufmsg[i]]

Init ==
    /\ queue = <<>>
    /\ queueClosed = FALSE
    /\ closeCount = 0
    /\ pending = 0
    /\ written = 0
    /\ closePc = "running"
    /\ closeResult = "none"
    /\ connResult = "none"
    /\ connClosed = FALSE
    /\ doneCh = FALSE
    /\ tickPending = FALSE
    /\ tickerStopped = FALSE
    /\ phase \in 0..(flushInterval - 1)
    /\ elapsed = 0
    /\ pc = "select"
    /\ after = "select"
    /\ msg = 0
    /\ buffer = [i \in 1..size |-> 0]
    /\ bufferSize = 0
    /\ buffer2 = [i \in 1..size |-> EmptyMessage]
    /\ icnt = 0
    /\ err = FALSE
    /\ sleepLeft = 0
    /\ collV = 0
    /\ successCount = 0
    /\ failureCount = 0
    /\ inflight = <<>>
    /\ attempts = 0
    /\ sinceAttempt = 0
    /\ calls = <<>>

\* ---- producers ---------------------------------------------------------
\* Producers call Write only before close() is called: a send on the closed
\* channel panics, which the callers must not cause.  One Write is in
\* progress at a time.

\* Write, the channel has room
WriteOverCapacity ==
    /\ closePc = "running"
    /\ pending = 0
    /\ written < MaxWrites
    /\ Len(queue) <= defaultBufferedWriterMsgQueueSize
    /\ queue' = Append(queue, written + 1)
    /\ written' = written + 1
    /\ UNCHANGED <<pending, closerVars, doneCh, tickerVars, elapsed, pc,
                   after, msg, buffer, bufferSize, buffer2, retryVars, collV,
                   metricVars, calls>>

Write ==
    /\ closePc = "running"
    /\ pending = 0
    /\ written < MaxWrites
    /\ Len(queue) < defaultBufferedWriterMsgQueueSize
    /\ queue' = Append(queue, written + 1)
    /\ written' = written + 1
    /\ UNCHANGED <<pending, closerVars, doneCh, tickerVars, elapsed, pc,
                   after, msg, buffer, bufferSize, buffer2, retryVars, collV,
                   metricVars, calls>>

\* Write, the channel is full: the caller blocks in the send
WriteBlock ==
    /\ closePc = "running"
    /\ pending = 0
    /\ written < MaxWrites
    /\ Len(queue) >= defaultBufferedWriterMsgQueueSize
    /\ pending' = written + 1
    /\ UNCHANGED <<queue, written, closerVars, doneCh, tickerVars, elapsed,
                   pc, after, msg, buffer, bufferSize, buffer2, retryVars,
                   collV, metricVars, calls>>

\* a blocked Write completes its send once the channel has room
WriteResume ==
    /\ pending # 0
    /\ Len(queue) < defaultBufferedWriterMsgQueueSize
    /\ queue' = Append(queue, pending)
    /\ written' = written + 1
    /\ pending' = 0
    /\ UNCHANGED <<closerVars, doneCh, tickerVars, elapsed, pc, after, msg,
                   buffer, bufferSize, buffer2, retryVars, collV, metricVars,
                   calls>>

\* ---- close() -----------------------------------------------------------

\* close(wb.buffer); no Write may be in progress (send on a closed channel)
CloseBuffer ==
    /\ closePc = "running"
    /\ pending = 0
    /\ queueClosed' = TRUE
    /\ closeCount' = closeCount + 1
    /\ closePc' = "stopTicker"
    /\ UNCHANGED <<producerVars, closeResult, connResult, connClosed, doneCh,
                   tickerVars,
                   elapsed, pc, after, msg, buffer, bufferSize, buffer2,
                   retryVars, collV, metricVars, calls>>

\* wb.flushTicker.Stop()
CloseStopTicker ==
    /\ closePc = "stopTicker"
    /\ tickerStopped' = TRUE
    /\ closePc' = "wait"
    /\ UNCHANGED <<producerVars, queueClosed, closeCount, closeResult,
                   connResult, connClosed, doneCh, tickPending, phase, elapsed, pc, after,
                   msg, buffer, bufferSize, buffer2, retryVars, collV,
                   metricVars, calls>>

\* <-wb.doneCh; return wb.writer.Close()
CloseReturnNoWait ==
    /\ closePc = "wait"
    /\ connClosed' = TRUE
    /\ \E r \in {"nil", "error"} : connResult' = r /\ closeResult' = r
    /\ closePc' = "returned"
    /\ UNCHANGED <<producerVars, queueClosed, closeCount, doneCh, tickerVars,
                   elapsed, pc, after, msg, buffer, bufferSize, buffer2,
                   retryVars, collV, metricVars, calls>>

CloseReturnFlushError ==
    /\ closePc = "wait"
    /\ doneCh
    /\ connClosed' = TRUE
    /\ \E r \in {"nil", "error"} :
          /\ connResult' = r
          /\ closeResult' = IF err THEN "error" ELSE r
    /\ closePc' = "returned"
    /\ UNCHANGED <<producerVars, queueClosed, closeCount, doneCh, tickerVars,
                   elapsed, pc, after, msg, buffer, bufferSize, buffer2,
                   retryVars, collV, metricVars, calls>>

CloseReturn ==
    /\ closePc = "wait"
    /\ doneCh
    /\ connClosed' = TRUE
    /\ \E r \in {"nil", "error"} : connResult' = r /\ closeResult' = r
    /\ closePc' = "returned"
    /\ UNCHANGED <<producerVars, queueClosed, closeCount, doneCh, tickerVars,
                   elapsed, pc, after, msg, buffer, bufferSize, buffer2,
                   retryVars, collV, metricVars, calls>>

\* ---- the worker: loop and flush ---------------------------------------

\* a call of flush(): lines 89-107.  With an empty buffer only the deferred
\* lastFlush = time.Now() runs; otherwise buffer2 is filled, the collectors
\* are created and the retry loop is entered.
EnterFlushNoStamp(cont) ==
    /\ after' = cont
    /\ IF bufferSize = 0
        THEN /\ pc' = "cont"
             /\ UNCHANGED <<buffer2, collV, icnt, err, attempts, elapsed>>
        ELSE /\ buffer2' = BuildBatch
             /\ collV' = CollectorValue(bufferSize)
             /\ icnt' = 0
             /\ err' = FALSE
             /\ attempts' = 0
             /\ pc' = "loop"
             /\ UNCHANGED elapsed

EnterFlush(cont) ==
    /\ after' = cont
    /\ IF bufferSize = 0
        THEN /\ elapsed' = 0
             /\ pc' = "cont"
             /\ UNCHANGED <<buffer2, collV, icnt, err, attempts>>
        ELSE /\ buffer2' = BuildBatch
             /\ collV' = CollectorValue(bufferSize)
             /\ icnt' = 0
             /\ err' = FALSE
             /\ attempts' = 0
             /\ pc' = "loop"
             /\ UNCHANGED elapsed

\* case msg, ok := <-wb.buffer with ok: lines 148-161
RecvDropOnFull ==
    /\ pc = "select"
    /\ queue # <<>>
    /\ queue' = Tail(queue)
    /\ IF BufferFull(bufferSize)
        THEN /\ EnterFlush("select")
             /\ UNCHANGED <<msg, buffer, bufferSize>>
        ELSE /\ buffer' = [buffer EXCEPT ![bufferSize + 1] = Head(queue)]
             /\ bufferSize' = bufferSize + 1
             /\ UNCHANGED <<msg, pc, after, buffer2, collV, icnt, err,
                            attempts, elapsed>>
    /\ UNCHANGED <<pending, written, closerVars, doneCh, tickerVars,
                   sleepLeft, metricVars, inflight, sinceAttempt, calls>>

Recv ==
    /\ pc = "select"
    /\ queue # <<>>
    /\ queue' = Tail(queue)
    /\ IF BufferFull(bufferSize)
        THEN /\ msg' = Head(queue)
             /\ EnterFlush("append")
             /\ UNCHANGED <<buffer, bufferSize>>
        ELSE /\ buffer' = [buffer EXCEPT ![bufferSize + 1] = Head(queue)]
             /\ bufferSize' = bufferSize + 1
             /\ UNCHANGED <<msg, pc, after, buffer2, collV, icnt, err,
                            attempts, elapsed>>
    /\ UNCHANGED <<pending, written, closerVars, doneCh, tickerVars,
                   sleepLeft, metricVars, inflight, sinceAttempt, calls>>

\* case msg, ok := <-wb.buffer with !ok: return, and the deferred function
\* stops the ticker and calls flush (lines 140-143)
RecvClosedNoFlush ==
    /\ pc = "select"
    /\ queue = <<>>
    /\ queueClosed
    /\ tickerStopped' = TRUE
    /\ after' = "exit"
    /\ pc' = "cont"
    /\ UNCHANGED <<producerVars, closerVars, doneCh, tickPending, phase, msg,
                   buffer, bufferSize, sleepLeft, metricVars, inflight,
                   sinceAttempt, calls, buffer2, collV, icnt, err, attempts,
                   elapsed>>

RecvClosed ==
    /\ pc = "select"
    /\ queue = <<>>
    /\ queueClosed
    /\ tickerStopped' = TRUE
    /\ EnterFlush("exit")
    /\ UNCHANGED <<producerVars, closerVars, doneCh, tickPending, phase, msg,
                   buffer, bufferSize, sleepLeft, metricVars, inflight,
                   sinceAttempt, calls>>

\* case <-wb.flushTicker.C: lines 162-166
TickReentrant ==
    /\ pc \in {"select", "sleep"}
    /\ tickPending
    /\ tickPending' = FALSE
    /\ IF TimerDue
        THEN EnterFlush("select")
        ELSE UNCHANGED <<pc, after, buffer2, collV, icnt, err, attempts,
                         elapsed>>
    /\ UNCHANGED <<producerVars, closerVars, doneCh, tickerStopped, phase,
                   msg, buffer, bufferSize, sleepLeft, metricVars, inflight,
                   sinceAttempt, calls>>

Tick ==
    /\ pc = "select"
    /\ tickPending
    /\ tickPending' = FALSE
    /\ IF TimerDue
        THEN EnterFlush("select")
        ELSE UNCHANGED <<pc, after, buffer2, collV, icnt, err, attempts,
                         elapsed>>
    /\ UNCHANGED <<producerVars, closerVars, doneCh, tickerStopped, phase,
                   msg, buffer, bufferSize, sleepLeft, metricVars, inflight,
                   sinceAttempt, calls>>

\* retry loop, an iteration starts: wm(buffer2, bufferSize) calls
\* WriteMessages (lines 123-124, 115-119)
Attempt ==
    /\ pc = "loop"
    /\ RetryLoopContinues(icnt)
    /\ inflight' = BatchSlice(buffer2, bufferSize)
    /\ attempts' = attempts + 1
    /\ pc' = "publishing"
    /\ UNCHANGED <<producerVars, closerVars, doneCh, tickerVars, elapsed,
                   after, msg, buffer, bufferSize, buffer2, icnt, err,
                   sleepLeft, collV, metricVars, sinceAttempt, calls>>

\* retry loop, the condition icnt < defaultWriteRetry fails
Exhausted ==
    /\ pc = "loop"
    /\ ~RetryLoopContinues(icnt)
    /\ pc' = "finish"
    /\ UNCHANGED <<producerVars, closerVars, doneCh, tickerVars, elapsed,
                   after, msg, buffer, bufferSize, buffer2, retryVars, collV,
                   metricVars, calls>>

\* WriteMessages returns nil: break (lines 125-127)
PublishOkNoBreak ==
    /\ pc = "publishing"
    /\ calls' = Append(calls, [batch |-> inflight, ok |-> TRUE, by |-> after])
    /\ inflight' = <<>>
    /\ err' = FALSE
    /\ icnt' = icnt + 1
    /\ pc' = "loop"
    /\ UNCHANGED <<producerVars, closerVars, doneCh, tickerVars, elapsed,
                   after, msg, buffer, bufferSize, buffer2, sleepLeft,
                   collV, metricVars, attempts, sinceAttempt>>

PublishOk ==
    /\ pc = "publishing"
    /\ calls' = Append(calls, [batch |-> inflight, ok |-> TRUE, by |-> after])
    /\ inflight' = <<>>
    /\ err' = FALSE
    /\ pc' = "finish"
    /\ UNCHANGED <<producerVars, closerVars, doneCh, tickerVars, elapsed,
                   after, msg, buffer, bufferSize, buffer2, icnt, sleepLeft,
                   collV, metricVars, attempts, sinceAttempt>>

\* WriteMessages returns an error: warn and sleep (lines 128-129)
PublishFail ==
    /\ pc = "publishing"
    /\ Cardinality({i \in 1..Len(calls) : ~calls[i].ok}) < MaxFailures
    /\ calls' = Append(calls, [batch |-> inflight, ok |-> FALSE, by |-> after])
    /\ inflight' = <<>>
    /\ err' = TRUE
    /\ sleepLeft' = defaultWriteRetrySleep
    /\ sinceAttempt' = 0
    /\ pc' = "sleep"
    /\ UNCHANGED <<producerVars, closerVars, doneCh, tickerVars, elapsed,
                   after, msg, buffer, bufferSize, buffer2, icnt, collV,
                   metricVars, attempts>>

\* time.Sleep returns; icnt++
SleepDone ==
    /\ pc = "sleep"
    /\ sleepLeft = 0
    /\ icnt' = icnt + 1
    /\ pc' = "loop"
    /\ UNCHANGED <<producerVars, closerVars, doneCh, tickerVars, elapsed,
                   after, msg, buffer, bufferSize, buffer2, err, sleepLeft,
                   collV, metricVars, inflight, attempts, sinceAttempt,
                   calls>>

\* end of flush: collectors.Error() on error, bufferSize = 0, then the
\* deferred Collect and lastFlush = time.Now() (lines 132-137, 108-113, 90)
FlushFinishKeepOnError ==
    /\ pc = "finish"
    /\ bufferSize' = IF err THEN bufferSize ELSE 0
    /\ IF err
        THEN /\ failureCount' = CounterAdd(failureCount, collV)
             /\ UNCHANGED successCount
        ELSE /\ successCount' = CounterAdd(successCount, collV)
             /\ UNCHANGED failureCount
    /\ elapsed' = 0
    /\ pc' = "cont"
    /\ UNCHANGED <<producerVars, closerVars, doneCh, tickerVars, after, msg,
                   buffer, buffer2, retryVars, collV, calls>>

FlushFinish ==
    /\ pc = "finish"
    /\ bufferSize' = 0
    /\ IF err
        THEN /\ failureCount' = CounterAdd(failureCount, collV)
             /\ UNCHANGED successCount
        ELSE /\ successCount' = CounterAdd(successCount, collV)
             /\ UNCHANGED failureCount
    /\ elapsed' = 0
    /\ pc' = "cont"
    /\ UNCHANGED <<producerVars, closerVars, doneCh, tickerVars, after, msg,
                   buffer, buffer2, retryVars, collV, calls>>

\* flush returned to line 157: buffer[bufferSize] = msg; bufferSize++
AppendAfterFlushNoIncrement ==
    /\ pc = "cont"
    /\ after = "append"
    /\ buffer' = [buffer EXCEPT ![bufferSize + 1] = msg]
    /\ msg' = 0
    /\ pc' = "select"
    /\ UNCHANGED <<producerVars, closerVars, doneCh, tickerVars, elapsed,
                   after, bufferSize, buffer2, retryVars, collV, metricVars,
                   calls>>

AppendAfterFlush ==
    /\ pc = "cont"
    /\ after = "append"
    /\ buffer' = [buffer EXCEPT ![bufferSize + 1] = msg]
    /\ bufferSize' = bufferSize + 1
    /\ msg' = 0
    /\ pc' = "select"
    /\ UNCHANGED <<producerVars, closerVars, doneCh, tickerVars, elapsed,
                   after, buffer2, retryVars, collV, metricVars, calls>>

\* flush returned to line 166: back to the select
ResumeSelect ==
    /\ pc = "cont"
    /\ after = "select"
    /\ pc' = "select"
    /\ UNCHANGED <<producerVars, closerVars, doneCh, tickerVars, elapsed,
                   after, msg, buffer, bufferSize, buffer2, retryVars, collV,
                   metricVars, calls>>

\* flush returned to the deferred function: close(wb.doneCh) (line 143)
WorkerExitClosingBuffer ==
    /\ pc = "cont"
    /\ after = "exit"
    /\ queueClosed' = TRUE
    /\ closeCount' = closeCount + 1
    /\ doneCh' = TRUE
    /\ pc' = "done"
    /\ UNCHANGED <<producerVars, closePc, closeResult, connResult, connClosed,
                   tickerVars, elapsed, after, msg, buffer, bufferSize,
                   buffer2, retryVars, collV, metricVars, calls>>

WorkerExit ==
    /\ pc = "cont"
    /\ after = "exit"
    /\ doneCh' = TRUE
    /\ pc' = "done"
    /\ UNCHANGED <<producerVars, closerVars, tickerVars, elapsed, after, msg,
                   buffer, bufferSize, buffer2, retryVars, collV, metricVars,
                   calls>>

\* ---- time --------------------------------------------------------------

\* one unit of time passes; the ticker fires every flushInterval unless it
\* was stopped, and a tick is dropped when the previous one was not taken
Advance ==
    /\ elapsed' = Min(elapsed + 1, flushInterval + 1)
    /\ sleepLeft' = Max(sleepLeft - 1, 0)
    /\ sinceAttempt' = IF pc \in {"sleep", "loop"}
                          THEN Min(sinceAttempt + 1, defaultWriteRetrySleep)
                          ELSE sinceAttempt
    /\ phase' = (phase + 1) % flushInterval
    /\ tickPending' = (tickPending \/ (phase' = 0 /\ ~tickerStopped))
    /\ UNCHANGED <<producerVars, closerVars, doneCh, tickerStopped, pc,
                   after, msg, buffer, bufferSize, buffer2, icnt, err, collV,
                   metricVars, inflight, attempts, calls>>

Next ==
    \/ Write
    \/ WriteBlock
    \/ WriteResume
    \/ CloseBuffer
    \/ CloseStopTicker
    \/ CloseReturn
    \/ Recv
    \/ RecvClosed
    \/ Tick
    \/ Attempt
    \/ Exhausted
    \/ PublishOk
    \/ PublishFail
    \/ SleepDone
    \/ FlushFinish
    \/ AppendAfterFlush
    \/ ResumeSelect
    \/ WorkerExit
    \/ Advance

Spec == Init /\ [][Next]_vars

TypeOK ==
    /\ bufferSize \in 0..(size + 1)
    /\ pc \in {"select", "loop", "publishing", "sleep", "finish", "cont", "done"}
    /\ after \in {"select", "append", "exit"}
    /\ closePc \in {"running", "stopTicker", "wait", "returned"}
    /\ elapsed \in 0..(flushInterval + 1)
\* ---- fairness ----------------------------------------------------------
\* The worker goroutine, a blocked sender and the caller of close() are
\* scheduled, time passes, a WriteMessages call returns, and the select
\* (which picks among its ready cases at random) does not ignore a ready
\* case for ever.
Fairness ==
    /\ WF_vars(WriteResume)
    /\ WF_vars(CloseStopTicker)
    /\ WF_vars(CloseReturn)
    /\ SF_vars(Recv)
    /\ SF_vars(RecvClosed)
    /\ SF_vars(Tick)
    /\ WF_vars(Attempt)
    /\ WF_vars(Exhausted)
    /\ WF_vars(PublishOk \/ PublishFail)
    /\ WF_vars(SleepDone)
    /\ WF_vars(FlushFinish)
    /\ WF_vars(AppendAfterFlush)
    /\ WF_vars(ResumeSelect)
    /\ WF_vars(WorkerExit)
    /\ WF_vars(Advance)

FairSpec == Spec /\ Fairness

\* ---- derived histories -------------------------------------------------

Ids(n) == [i \in 1..n |-> i]

\* the payloads of one WriteMessages call
Values(b) == [i \in 1..Len(b) |-> b[i].Value]

RECURSIVE Concat(_)
Concat(cs) ==
    IF cs = <<>> THEN <<>> ELSE Values(Head(cs).batch) \o Concat(Tail(cs))

IsOk(c) == c.ok
OkCalls == SelectSeq(calls, IsOk)
Published == Concat(OkCalls)
AllCallsOk == \A i \in 1..Len(calls) : calls[i].ok

\* the calls issued so far by the flush that is running or just ended
ReturnedAttempts == IF pc = "publishing" THEN attempts - 1 ELSE attempts
CurrentCalls == { i \in 1..Len(calls) : i > Len(calls) - ReturnedAttempts }
AllAttemptsFailed ==
    /\ attempts >= 1
    /\ \A i \in CurrentCalls : ~calls[i].ok

\* the payloads the worker holds: the accumulated ones and the received one
Accumulated == [i \in 1..bufferSize |-> buffer[i]]
Held ==
    (IF pc = "finish" THEN <<>> ELSE Accumulated)
        \o (IF msg = 0 THEN <<>> ELSE <<msg>>)

Lifecycle ==
    IF connClosed THEN "Closed"
    ELSE IF queueClosed THEN "Draining"
    ELSE "Running"

\* ---- claims ------------------------------------------------------------

\* C1: once Close has returned and every publish call succeeded, the
\* batches handed to the broker, concatenated in publish order, are exactly
\* the written payloads in admission order, each once.
C1_NoLossFifo ==
    (closePc = "returned" /\ AllCallsOk) => Published = Ids(written)

C1_Witness ==
    /\ closePc = "returned"
    /\ AllCallsOk
    /\ written > size
    /\ Len(calls) >= 2
    /\ \E i \in 1..Len(calls) : calls[i].by = "append"

\* C2: the connection is closed only after the queue was closed and
\* drained and the worker's final flush completed; Running never goes to
\* Closed directly; no publish call is issued once the connection is closed.
C2_ShutdownOrder ==
    /\ [](connClosed =>
            /\ queueClosed
            /\ queue = <<>>
            /\ msg = 0
            /\ bufferSize = 0
            /\ inflight = <<>>
            /\ doneCh
            /\ pc = "done")
    /\ [][/\ Lifecycle = "Running" => Lifecycle' # "Closed"
          /\ Lifecycle' = "Closed" => Lifecycle \in {"Draining", "Closed"}
          /\ connClosed => (calls' = calls /\ inflight' = inflight)]_vars

C2_Witness ==
    /\ connClosed
    /\ calls # <<>>
    /\ calls[Len(calls)].by = "exit"

\* C3 as stated: K payloads, 0 < K < capacity, then Close, broker always
\* succeeding: exactly one publish call, holding all K payloads.
C3_ExactlyOneCall ==
    (closePc = "returned" /\ AllCallsOk /\ written > 0 /\ written < size)
        => (Len(calls) = 1 /\ Values(calls[1].batch) = Ids(written))

\* C3 amended: the K payloads reach the broker in between one and K
\* non-empty publish calls, in write order and each once, all of them
\* before the connection is released; the call is a single one holding all
\* K payloads when the timer published nothing before the final flush.
C3_GracefulDrain ==
    (closePc = "returned" /\ AllCallsOk /\ written > 0 /\ written < size)
        => /\ Len(calls) >= 1
           /\ Len(calls) <= written
           /\ \A i \in 1..Len(calls) : Len(calls[i].batch) >= 1
           /\ Published = Ids(written)
           /\ connClosed
           /\ (calls[Len(calls)].by = "exit" /\ Len(calls) > 1)
                 => \E i \in 1..Len(calls) : calls[i].by = "select"
           /\ (\A i \in 1..Len(calls) : calls[i].by = "exit")
                 => (Len(calls) = 1 /\ Values(calls[1].batch) = Ids(written))

C3_Witness ==
    /\ closePc = "returned"
    /\ AllCallsOk
    /\ written = 2
    /\ written < size
    /\ Len(calls) = 2

\* C4: a flush whose publish calls all fail issues exactly
\* defaultWriteRetry calls before it gives up, never more, and a retry is
\* issued only after the retry delay has passed since the failure.
C4_BoundedRetry ==
    /\ attempts <= defaultWriteRetry
    /\ (pc \in {"finish", "cont"} /\ AllAttemptsFailed)
          => attempts = defaultWriteRetry
    /\ (pc = "finish" /\ err) => AllAttemptsFailed
    /\ (pc = "publishing" /\ attempts > 1)
          => sinceAttempt >= defaultWriteRetrySleep

C4_Witness ==
    /\ pc = "finish"
    /\ err
    /\ attempts = defaultWriteRetry
    /\ AllAttemptsFailed

C6_BatchAtomicity ==
    /\ pc = "publishing"
          => /\ Len(inflight) = bufferSize
             /\ Values(inflight) = Accumulated
             /\ \A i \in 1..Len(inflight) :
                   inflight[i].Key = ComputeHash256(buffer[i])
    /\ \A i \in CurrentCalls :
          pc \in {"loop", "publishing", "sleep", "finish"}
             => Values(calls[i].batch) = Accumulated

C6_Witness ==
    /\ pc = "publishing"
    /\ attempts = 2
    /\ bufferSize < size
    /\ buffer2[size].Value # 0

C8_BufferBound ==
    /\ 0 <= bufferSize
    /\ bufferSize <= size

C8_Witness ==
    /\ bufferSize = size
    /\ queueClosed
    /\ \E i \in 1..Len(calls) : ~calls[i].ok
    /\ \E i \in 1..Len(calls) : calls[i].ok

\* C9: the buffer shrinks only by being reset to 0 at the end of a flush
\* that made at least one publish attempt carrying the buffered payloads,
\* the last of which succeeded or exhausted the retries.
C9_ResetAfterAttempt ==
    [][bufferSize' < bufferSize
         => /\ bufferSize' = 0
            /\ pc = "finish"
            /\ attempts >= 1
            /\ Len(calls) >= attempts
            /\ \A i \in CurrentCalls : Values(calls[i].batch) = Accumulated
            /\ \/ calls[Len(calls)].ok
               \/ (attempts = defaultWriteRetry /\ AllAttemptsFailed)]_vars

C9_Witness ==
    /\ pc = "cont"
    /\ bufferSize = 0
    /\ AllAttemptsFailed
    /\ attempts = defaultWriteRetry
    /\ after = "select"

\* C10: the inbound queue is closed at most once, by close() and by no
\* step of the worker.
C10_ClosedOnce ==
    /\ [](closeCount <= 1 /\ (queueClosed <=> closeCount = 1))
    /\ [][(closeCount' # closeCount \/ queueClosed' # queueClosed)
            => /\ closeCount = 0
               /\ closeCount' = 1
               /\ closePc = "running"
               /\ closePc' = "stopTicker"
               /\ pc' = pc
               /\ bufferSize' = bufferSize]_vars

C10_Witness ==
    /\ closeCount = 1
    /\ pc = "done"
    /\ closePc = "returned"
    /\ calls # <<>>

\* C11: a batch is published as soon as the accumulation buffer holds
\* capacity payloads: the worker never waits for another event with a full
\* buffer, and the payload that follows the batch is not in the buffer
\* while the batch is being published.
C11_ImmediateCapacityFlush ==
    /\ pc = "select" => bufferSize < size
    /\ (pc \in {"loop", "publishing", "sleep", "finish"} /\ msg # 0)
          => \A i \in 1..bufferSize : buffer[i] # msg

Range(f) == { f[i] : i \in DOMAIN f }

\* the worker is inside flush(), past its first lines
InFlush == pc \in {"loop", "publishing", "sleep", "finish"}

\* the returned calls of flushes that ended with every attempt failed
DiscardedCalls ==
    { i \in 1..Len(calls) :
        /\ ~(InFlush /\ i \in CurrentCalls)
        /\ \A j \in 1..Len(calls) :
              calls[j].batch = calls[i].batch => ~calls[j].ok }

DiscardedPayloads ==
    UNION { Range(Values(calls[i].batch)) : i \in DiscardedCalls }

\* C13: when every attempt of a flush has failed the batch is discarded and
\* not requeued: bufferSize becomes 0 and nothing returns to the inbound
\* queue, no discarded payload is in the queue, the buffer or a later
\* publish call, no producer or caller of Close sees the failure, and the
\* worker goes on to the select (or to its exit) as after a success.
C13_DiscardOnExhaustion ==
    /\ [](/\ DiscardedPayloads
               \cap (Range(queue) \cup Range(Accumulated)
                       \cup Range(Values(inflight)) \cup {msg, pending}) = {}
          /\ DiscardedPayloads \cap Range(Published) = {})
    /\ [][(pc = "finish" /\ AllAttemptsFailed /\ pc' # "finish")
            => /\ bufferSize' = 0
               /\ pc' = "cont"
               /\ after' = after
               /\ msg' = msg
               /\ UNCHANGED <<producerVars, closerVars, calls>>]_vars
    /\ [][(pc = "publishing" /\ pc' = "sleep")
            => UNCHANGED <<producerVars, closerVars, bufferSize, buffer>>]_vars
    /\ (pc = "finish" /\ AllAttemptsFailed) ~> (pc \in {"select", "done"})

C13_Witness ==
    \E i \in DiscardedCalls :
        \E j \in 1..Len(calls) :
            /\ i < j
            /\ calls[j].ok
            /\ Len(calls[i].batch) = size

\* ---- formed batches ----------------------------------------------------

\* the last returned call of every flush: the batches formed so far
FlushEnds ==
    { i \in 1..Len(calls) :
        i = Len(calls) \/ calls[i + 1].batch # calls[i].batch }

RECURSIVE FormedUpTo(_)
FormedUpTo(k) ==
    IF k = 0 THEN <<>>
    ELSE FormedUpTo(k - 1)
            \o (IF k \in FlushEnds THEN Values(calls[k].batch) ELSE <<>>)

FormedPayloads == FormedUpTo(Len(calls))

\* the admitted payloads that are in no formed batch yet
Unformed ==
    (IF InFlush /\ ReturnedAttempts >= 1 THEN <<>> ELSE Accumulated)
        \o (IF msg = 0 THEN <<>> ELSE <<msg>>)
        \o queue

\* C14: whatever the broker does, the batches are formed from consecutive
\* payloads in admission order and published in that order, every payload
\* is in exactly one batch, and the published payloads are the written
\* sequence without the payloads of whole failed batches.
C14_OrderedBatches ==
    /\ FormedPayloads \o Unformed = Ids(written)
    /\ closePc = "returned" => FormedPayloads = Ids(written)
    /\ \A i \in 1..Len(calls) : calls[i].ok => i \in FlushEnds
    /\ \A i \in FlushEnds :
          IF calls[i].ok
             THEN Range(Values(calls[i].batch)) \subseteq Range(Published)
             ELSE Range(Values(calls[i].batch)) \cap Range(Published) = {}
    /\ \A i \in 1..Len(Published) : \A j \in 1..Len(Published) :
          i < j => Published[i] < Published[j]
    /\ Range(Published) \subseteq 1..written

C14_Witness ==
    /\ closePc = "returned"
    /\ written > size
    /\ Published # <<>>
    /\ Len(Published) < written
    /\ \E i \in FlushEnds : \E j \in FlushEnds :
          i < j /\ ~calls[i].ok /\ calls[j].ok /\ Len(calls[j].batch) > 1

\* C15: when every publish attempt returns and the goroutines are scheduled,
\* a Close call returns, also when every attempt of the final flush failed;
\* by then the connection is closed, and what Close returns is the result
\* of closing the connection, not the error of the flush.  A Close call
\* once begun stays begun and once returned stays returned, so "every begun
\* Close returns" is: the caller is again and again either not closing or
\* returned.
C15_CloseTerminates ==
    /\ [](closePc = "returned"
            => /\ connClosed
               /\ connResult \in {"nil", "error"}
               /\ closeResult = connResult)
    /\ [](closePc # "returned" => (closeResult = "none" /\ ~connClosed))
    /\ [][/\ closePc # "running" => closePc' # "running"
          /\ (closePc = "returned" /\ pc = "done")
               => (closePc' = "returned" /\ pc' = "done")]_vars
    /\ []<>(closePc = "running" \/ (closePc = "returned" /\ pc = "done"))

C15_Witness ==
    /\ closePc = "returned"
    /\ connClosed
    /\ closeResult = "nil"
    /\ Len(calls) >= defaultWriteRetry
    /\ \A i \in 1..Len(calls) :
          i > Len(calls) - defaultWriteRetry
             => (~calls[i].ok /\ calls[i].by = "exit")

\* C16: a flush invoked with an empty buffer, by a due timer tick or by the
\* shutdown, makes no publish call, changes neither counter nor the
\* buffers, and sets lastFlush to the current time.
C16_EmptyFlush ==
    [][/\ (pc = "select" /\ pc' # "select" /\ bufferSize = 0 /\ queue' = queue)
            => /\ pc' = "cont"
               /\ elapsed' = 0
               /\ inflight = <<>>
               /\ UNCHANGED <<calls, inflight, attempts, metricVars, buffer,
                              bufferSize, buffer2, msg, producerVars>>
       /\ (pc = "select" /\ bufferSize = 0 /\ queue' = queue
              /\ \/ (tickPending /\ ~tickPending' /\ elapsed > flushInterval)
                 \/ (~tickerStopped /\ tickerStopped' /\ closePc' = closePc))
            => (pc' = "cont" /\ elapsed' = 0)
       /\ (pc = "cont" /\ bufferSize = 0 /\ after # "append" /\ pc' # "cont")
            => (pc' \in {"select", "done"}
                  /\ UNCHANGED <<calls, inflight, metricVars, bufferSize>>)]_vars

C16_Witness ==
    /\ pc = "cont"
    /\ after = "select"
    /\ calls = <<>>
    /\ attempts = 0
    /\ elapsed = 0
    /\ bufferSize = 0
    /\ successCount = 0
    /\ failureCount = 0

\* C17: a handled timer tick invokes flush only when strictly more than one
\* flush interval has passed since the last flush completed, whatever
\* started that flush; a tick handled earlier changes nothing: no publish
\* call, the buffer and lastFlush as they were.  elapsed is the time since
\* the last flush completed: every flush completion sets it to 0 and only
\* the passing of time raises it.
C17_TimerGuard ==
    [][/\ (pc = "select" /\ tickPending /\ ~tickPending')
            => IF elapsed > flushInterval
                 THEN pc' \in {"cont", "loop"} /\ after' = "select"
                 ELSE UNCHANGED <<pc, after, calls, inflight, attempts,
                                  buffer, bufferSize, buffer2, msg, elapsed,
                                  metricVars, producerVars>>
       /\ (pc = "select" /\ pc' # "select" /\ after' = "select")
            => (elapsed > flushInterval /\ tickPending /\ ~tickPending')
       /\ (pc # "cont" /\ pc' = "cont") => elapsed' = 0
       /\ elapsed' # elapsed
            => \/ (pc # "cont" /\ pc' = "cont" /\ elapsed' = 0)
               \/ (pc' = pc /\ elapsed' = elapsed + 1)]_vars

\* a tick was handled one interval after a capacity-triggered flush and
\* left the accumulated item alone
C17_Witness ==
    /\ pc = "select"
    /\ ~tickPending
    /\ ~tickerStopped
    /\ elapsed = flushInterval
    /\ bufferSize = 1
    /\ calls # <<>>
    /\ calls[Len(calls)].by = "append"
    /\ Len(calls[Len(calls)].batch) = size

\* C18: an item dequeued while bufferSize = size is set aside, flush runs
\* on the full buffer, and the item is appended afterwards, leaving
\* bufferSize = 1 with the item in the first slot, after a successful flush
\* and after an exhausted one alike; the item is in no batch of that flush
\* and is not dropped.
C18_OverflowAppend ==
    /\ [](msg # 0 =>
            /\ after = "append"
            /\ pc \in {"loop", "publishing", "sleep", "finish", "cont"}
            /\ msg \notin Range(Values(inflight))
            /\ \A i \in 1..Len(calls) : msg \notin Range(Values(calls[i].batch))
            /\ pc = "cont" => bufferSize = 0)
    /\ [](pc = "select" =>
            \A i \in 1..Len(calls) :
                Range(Accumulated) \cap Range(Values(calls[i].batch)) = {})
    /\ [][/\ (pc = "select" /\ Len(queue') < Len(queue) /\ bufferSize = size)
               => /\ pc' = "loop"
                  /\ after' = "append"
                  /\ msg' = Head(queue)
                  /\ Head(queue) \notin Range(Values(buffer2'))
                  /\ Len(buffer2') = size
                  /\ UNCHANGED <<buffer, bufferSize, calls>>
          /\ msg # 0
               => \/ msg' = msg
                  \/ /\ pc = "cont"
                     /\ pc' = "select"
                     /\ msg' = 0
                     /\ bufferSize' = 1
                     /\ buffer'[1] = msg
                     /\ UNCHANGED <<calls, producerVars>>]_vars

\* the overflow item sits alone in the buffer after the flush it triggered
\* exhausted its retries
C18_Witness ==
    /\ pc = "select"
    /\ msg = 0
    /\ bufferSize = 1
    /\ buffer[1] = size + 1
    /\ Len(calls) = defaultWriteRetry
    /\ \A i \in 1..Len(calls) :
          /\ ~calls[i].ok
          /\ calls[i].by = "append"
          /\ Values(calls[i].batch) = Ids(size)

\* C19: a flush of a non-empty buffer makes no publish call after its first
\* successful one, so a batch that succeeds on attempt k is sent exactly k
\* times; it ends by adding to exactly one of the two counters, the success
\* counter when an attempt succeeded and the failure counter when every
\* attempt failed; it leaves bufferSize = 0 and lastFlush set to the time
\* of its end in both cases.
C19_OneOutcome ==
    /\ [](pc = "finish" =>
            /\ attempts >= 1
            /\ attempts <= defaultWriteRetry
            /\ Cardinality(CurrentCalls) = attempts
            /\ bufferSize > 0
            /\ collV > 0
            /\ err <=> AllAttemptsFailed
            /\ ~err <=> calls[Len(calls)].ok
            /\ \A i \in CurrentCalls :
                  /\ calls[i].batch = calls[Len(calls)].batch
                  /\ calls[i].ok => i = Len(calls))
    /\ [][/\ (calls' # calls /\ calls'[Len(calls')].ok)
               => /\ pc = "publishing"
                  /\ pc' = "finish"
                  /\ attempts' = attempts
          /\ pc = "finish"
               => /\ calls' = calls
                  /\ inflight' = <<>>
                  /\ pc' \in {"finish", "cont"}
          /\ (pc = "finish" /\ pc' = "cont")
               => /\ bufferSize' = 0
                  /\ elapsed' = 0
                  /\ IF calls[Len(calls)].ok
                       THEN /\ successCount' > successCount
                            /\ failureCount' = failureCount
                       ELSE /\ failureCount' > failureCount
                            /\ successCount' = successCount
          /\ metricVars' # metricVars => (pc = "finish" /\ pc' = "cont")
          /\ (pc \in {"loop", "publishing", "sleep"})
               => pc' \in {"loop", "publishing", "sleep", "finish"}
          /\ (pc = "select" /\ pc' \notin {"select", "cont"})
               => (pc' = "loop" /\ bufferSize > 0)]_vars

\* a flush ended after a failed first attempt and a successful second one,
\* and only the success counter moved
C19_Witness ==
    /\ pc = "cont"
    /\ attempts = 2
    /\ Len(calls) = 2
    /\ ~calls[1].ok
    /\ calls[2].ok
    /\ calls[1].batch = calls[2].batch
    /\ successCount > 0
    /\ failureCount = 0
    /\ bufferSize = 0
    /\ elapsed = 0

\* C20: one publish call at most is in flight; from the start of a flush
\* to its end, retry delays included, the worker takes nothing from the
\* inbound queue and handles no tick, so bufferSize and the batch are the
\* same for every attempt of the flush; a producer's step changes the
\* inbound queue and nothing else of the writer.
C20_SingleWorker ==
    /\ [](/\ inflight # <<>> <=> pc = "publishing"
          /\ InFlush =>
                /\ Len(buffer2) >= bufferSize
                /\ \A i \in 1..bufferSize : buffer2[i].Value = buffer[i]
                /\ inflight # <<>> => Values(inflight) = Accumulated
                /\ \A i \in CurrentCalls : Values(calls[i].batch) = Accumulated)
    /\ [][/\ Len(calls') <= Len(calls) + 1
          /\ calls' # calls => (inflight # <<>> /\ inflight' = <<>>)
          /\ InFlush
               => /\ Len(queue') >= Len(queue)
                  /\ tickPending => tickPending'
                  /\ UNCHANGED <<buffer, buffer2, msg, after>>
                  /\ \/ bufferSize' = bufferSize
                     \/ (pc = "finish" /\ pc' = "cont" /\ bufferSize' = 0)
          /\ (written' # written \/ pending' # pending
                \/ Len(queue') > Len(queue))
               => UNCHANGED <<closerVars, doneCh, tickerVars, elapsed, pc,
                              after, msg, buffer, bufferSize, buffer2,
                              retryVars, collV, metricVars, calls>>]_vars

\* during a retry delay a tick is waiting, the inbound queue is full and a
\* producer is blocked, and the worker has taken none of them
C20_Witness ==
    /\ pc = "sleep"
    /\ tickPending
    /\ elapsed > flushInterval
    /\ Len(queue) = defaultBufferedWriterMsgQueueSize
    /\ pending # 0
    /\ bufferSize = size
    /\ attempts = 1
    /\ ~calls[Len(calls)].ok
====
